---- MODULE Spec2Model ----
(***************************************************************************)
(* A model of the CSV parser of src/src/csv_parser.py together with the    *)
(* collaborators it drives: the state machine base class                   *)
(* (src/src/state_machine.py), the StringBuilder (src/src/string_builder.py)*)
(* and the character source (src/src/io.py).                               *)
(*                                                                         *)
(* A parser object is the record                                           *)
(*   [state, fields, fields_per_record, doublequotes_in_field, builder,    *)
(*    error]                                                               *)
(* The methods of the class are operators from such a record to the record *)
(* after the call.  A raised exception is the field `error`: a method that *)
(* raises returns the object as it was at the raise, with the exception in *)
(* `error`, and every caller stops at a non-empty `error`.                 *)
(***************************************************************************)
EXTENDS Integers, Sequences, FiniteSets, TLC

VARIABLES
    state,                  \* StateMachineBase.state
    fields,                 \* CsvParser.fields: all fields parsed so far
    fields_per_record,      \* CsvParser.fields_per_record (None until set)
    doublequotes_in_field,  \* CsvParser.doublequotes_in_field
    builder,                \* the StringBuilder local to parse()
    error,                  \* the exception parse() raised, NoError if none
    pc,                     \* where the caller is: idle, parsing, returned, raised
    consumed,               \* history: the characters read by the current parse
    records,                \* history: the records completed by the current parse
    current,                \* history: the fields completed in the record in progress
    previous,               \* history: how the parse before the last reset() ended, "none" if there was none
    result,                 \* what the last __len__/__getitem__/__iter__ call gave
    machine,                \* a GumballMachine: state, gumballs, and the last call's
                            \* exception and hook observations
    call,                   \* history: the last call made on the machine
    sb,                     \* a StringBuilder used on its own
    text,                   \* history: what was appended to sb since the last clear()
    read                    \* what the last len()/str()/build() of sb gave

parserVars == <<state, fields, fields_per_record, doublequotes_in_field, builder,
                error, pc, consumed, records, current, previous, result>>

machineVars == <<machine, call>>

builderVars == <<sb, text, read>>

vars == <<state, fields, fields_per_record, doublequotes_in_field, builder,
          error, pc, consumed, records, current, previous, result,
          machine, call, sb, text, read>>

---------------------------------------------------------------------------
(* Bounds of the model *)

\* the longest input stream read by one parse
MaxLen == 5
\* record indexes -MaxKey .. MaxKey are tried on __getitem__
MaxKey == 3
\* the largest inventory of the gumball machine, and the most added at once
MaxGumballs == 6
\* the longest text given to one StringBuilder.append
MaxText == 2
\* the most characters a StringBuilder used on its own holds
MaxBuilt == 3

---------------------------------------------------------------------------
(* Characters.  A string of the program is a sequence of one-character     *)
(* strings.                                                                *)

Comma == ","
Newline == "\n"
DoubleQuote == "\""
Alphabet == {"a", Comma, Newline, DoubleQuote}

\* fields_per_record = None; a set fields_per_record is at least 1
None == 0

NoError == [kind |-> "none"]

---------------------------------------------------------------------------
(* src/src/csv_parser.py: class States *)

States == {"BEGIN", "IN_FIELD", "QUOTE_IN_FIELD", "END_OF_FIELD",
           "END_OF_RECORD", "END"}

\* StateMachineMeta: the first member of the enumeration
initial_state == "BEGIN"

---------------------------------------------------------------------------
(* src/src/string_builder.py.  The builder wraps an io.StringIO: `buf` is  *)
(* the stream's content and `pos` its position.  write() overwrites at the *)
(* position, seek(0) moves the position and keeps the content, truncate()  *)
(* cuts the content at the position.                                       *)

StringBuilder_new == [buf |-> <<>>, pos |-> 0, closed |-> FALSE]

\* __exit__: closes the StringIO, which discards its buffer
StringBuilder_exit(b) == [buf |-> <<>>, pos |-> 0, closed |-> TRUE]

\* append(to_append): string_io.write(to_append) overwrites from the position
StringBuilder_append_text(b, to_append) ==
    [b EXCEPT !.buf = SubSeq(b.buf, 1, b.pos) \o to_append
                       \o SubSeq(b.buf, b.pos + Len(to_append) + 1, Len(b.buf)),
              !.pos = b.pos + Len(to_append)]

\* append(to_append) with a one-character string
StringBuilder_append(b, ch) == StringBuilder_append_text(b, <<ch>>)

\* __len__: string_io.tell()
StringBuilder_len(b) == b.pos

\* the builder after __str__: string_io.truncate()
StringBuilder_truncate(b) == [b EXCEPT !.buf = SubSeq(b.buf, 1, b.pos)]

\* __str__ with the truncate of line 45 lost: everything the StringIO holds
StringBuilder_str_untruncated(b) == b.buf

\* the value of __str__: string_io.getvalue() after the truncate
StringBuilder_str(b) == StringBuilder_truncate(b).buf

\* clear(): string_io.seek(0)
StringBuilder_clear(b) == [b EXCEPT !.pos = 0]

---------------------------------------------------------------------------
(* src/src/state_machine.py *)

Raise(p, e) == [p EXCEPT !.error = e]

Failed(p) == p.error # NoError

\* history: a machine that carries a field `log` records each hook call
\* with its arguments and the state the machine is in when the hook runs; a
\* machine without the field is not observed
Observed(p, hook, from_state, to_state) ==
    IF "log" \in DOMAIN p
    THEN [p EXCEPT !.log = Append(@, [hook |-> hook, from |-> from_state,
                                      to |-> to_state, state |-> p.state])]
    ELSE p

\* StateMachineBase.before_transition: logs, changes nothing of the machine
before_transition(p, from_state, to_state) ==
    Observed(p, "before_transition", from_state, to_state)

\* StateMachineBase.after_transition: pass
after_transition(p, from_state, to_state) ==
    Observed(p, "after_transition", from_state, to_state)

\* transition with lines 89 and 90 exchanged: the state is set before
\* before_transition is called
transition_in_sets_first(states, p, to_state) ==
    IF to_state \notin states
    THEN Raise(p, [kind |-> "TypeError"])
    ELSE LET from_state == p.state
             t == [p EXCEPT !.state = to_state]
             b == before_transition(t, from_state, to_state)
         IN  after_transition(b, from_state, to_state)

\* StateMachineBase.transition on a machine of a class whose `states` is the
\* enumeration with the members `states`
transition_in(states, p, to_state) ==
    IF to_state \notin states
    THEN Raise(p, [kind |-> "TypeError"])
    ELSE LET from_state == p.state
             b == before_transition(p, from_state, to_state)
             t == [b EXCEPT !.state = to_state]
         IN  after_transition(t, from_state, to_state)

\* StateMachineBase.transition on a CsvParser
transition(p, to_state) == transition_in(States, p, to_state)

---------------------------------------------------------------------------
(* src/src/csv_parser.py *)

\* math.ceil(a / b) for a >= 0, b > 0
Ceil(a, b) == (a + b - 1) \div b

\* CsvParser.__init__
CsvParser_init ==
    [state |-> initial_state,
     fields |-> <<>>,
     fields_per_record |-> None,
     doublequotes_in_field |-> 0,
     builder |-> StringBuilder_exit(StringBuilder_new),
     error |-> NoError]

\* CsvParser.record_number
record_number(p) ==
    IF p.fields_per_record = None
    THEN 1
    ELSE Ceil(Len(p.fields), p.fields_per_record)

\* CsvParser.has_unbalanced_doublequotes
has_unbalanced_doublequotes(p) == p.doublequotes_in_field % 2 = 1

\* end_field with the tests of lines 123-126 lost: a quoted field ends
\* whatever its counter and state
end_field_unchecked(p) ==
    transition(
        [p EXCEPT
            !.doublequotes_in_field = 0,
            !.fields = Append(p.fields, StringBuilder_str(p.builder)),
            !.builder = StringBuilder_clear(StringBuilder_truncate(p.builder))],
        "END_OF_FIELD")

\* CsvParser.end_field
end_field(p) ==
    LET checked ==
            IF p.doublequotes_in_field > 0
            THEN IF has_unbalanced_doublequotes(p)
                 THEN Raise(p, [kind |-> "UnbalancedDoubleQuotes",
                                field |-> Len(p.fields) + 1,
                                record |-> record_number(p)])
                 ELSE IF p.state # "QUOTE_IN_FIELD"
                 THEN Raise(p, [kind |-> "MustEndWithDoubleQuote",
                                field |-> Len(p.fields) + 1,
                                record |-> record_number(p)])
                 ELSE [p EXCEPT !.doublequotes_in_field = 0]
            ELSE p
    IN  IF Failed(checked)
        THEN checked
        ELSE transition(
                 [checked EXCEPT
                     !.fields = Append(p.fields, StringBuilder_str(p.builder)),
                     !.builder = StringBuilder_clear(
                                     StringBuilder_truncate(p.builder))],
                 "END_OF_FIELD")

\* CsvParser.check_for_invalid_number_of_fields
check_for_invalid_number_of_fields(p) ==
    LET fields_discrepancy == Len(p.fields) % p.fields_per_record
    IN  IF fields_discrepancy = 0
        THEN p
        ELSE Raise(p, [kind |-> "FieldCountMismatch",
                       record |-> record_number(p),
                       found |-> fields_discrepancy,
                       expected |-> p.fields_per_record])

\* end_record that clears the field list once the record is checked, as a
\* parser handing out one record at a time would
end_record_clears(p) ==
    LET f == end_field(p)
        r == transition(f, "END_OF_RECORD")
        e == IF r.fields_per_record = None
             THEN [r EXCEPT !.fields_per_record = Len(r.fields)]
             ELSE check_for_invalid_number_of_fields(r)
    IN  IF Failed(f) THEN f
        ELSE IF Failed(r) THEN r
        ELSE IF Failed(e) THEN e
        ELSE [e EXCEPT !.fields = <<>>]

\* end_record with the `is None` test of line 157 lost: every record sets
\* fields_per_record
end_record_recounts(p) ==
    LET f == end_field(p)
        r == transition(f, "END_OF_RECORD")
    IN  IF Failed(f) THEN f
        ELSE IF Failed(r) THEN r
        ELSE [r EXCEPT !.fields_per_record = Len(r.fields)]

\* CsvParser.end_record
end_record(p) ==
    LET f == end_field(p)
        r == transition(f, "END_OF_RECORD")
    IN  IF Failed(f) THEN f
        ELSE IF Failed(r) THEN r
        ELSE IF r.fields_per_record = None
        THEN [r EXCEPT !.fields_per_record = Len(r.fields)]
        ELSE check_for_invalid_number_of_fields(r)

\* process_char with the raise of lines 192-193 lost: a character after a
\* closing double-quote is content
process_char_after_quote(p, ch) ==
    LET d == IF p.state = "QUOTE_IN_FIELD" /\ has_unbalanced_doublequotes(p)
             THEN [p EXCEPT !.builder = StringBuilder_append(p.builder, DoubleQuote)]
             ELSE p
        content ==
            LET t == IF d.state # "IN_FIELD"
                     THEN transition(d, "IN_FIELD")
                     ELSE d
            IN  IF Failed(t) THEN t
                ELSE [t EXCEPT !.builder = StringBuilder_append(t.builder, ch)]
    IN  IF ch = Comma /\ ~has_unbalanced_doublequotes(d)
        THEN end_field(d)
        ELSE IF ch = Newline
        THEN IF has_unbalanced_doublequotes(d)
             THEN [d EXCEPT !.builder = StringBuilder_append(d.builder, ch)]
             ELSE end_record(d)
        ELSE content

\* process_char with the balance test of line 181 lost: every comma ends
\* the field
process_char_comma_ends(p, ch) ==
    LET d == IF p.state = "QUOTE_IN_FIELD" /\ has_unbalanced_doublequotes(p)
             THEN [p EXCEPT !.builder = StringBuilder_append(p.builder, DoubleQuote)]
             ELSE p
        content ==
            IF d.state = "QUOTE_IN_FIELD" /\ ~has_unbalanced_doublequotes(d)
            THEN Raise(d, [kind |-> "UnexpectedCharacterAfterQuote",
                           ch |-> ch,
                           field |-> Len(d.fields) + 1,
                           record |-> record_number(d)])
            ELSE LET t == IF d.state # "IN_FIELD"
                          THEN transition(d, "IN_FIELD")
                          ELSE d
                 IN  IF Failed(t) THEN t
                     ELSE [t EXCEPT !.builder = StringBuilder_append(t.builder, ch)]
    IN  IF ch = Comma
        THEN end_field(d)
        ELSE IF ch = Newline
        THEN IF has_unbalanced_doublequotes(d)
             THEN [d EXCEPT !.builder = StringBuilder_append(d.builder, ch)]
             ELSE end_record(d)
        ELSE content

\* CsvParser.process_char
process_char(p, ch) ==
    LET \* lines 169-178: the deferred double-quote
        d == IF p.state = "QUOTE_IN_FIELD" /\ has_unbalanced_doublequotes(p)
             THEN [p EXCEPT !.builder = StringBuilder_append(p.builder, DoubleQuote)]
             ELSE p
        \* lines 192-197: the character is content
        content ==
            IF d.state = "QUOTE_IN_FIELD" /\ ~has_unbalanced_doublequotes(d)
            THEN Raise(d, [kind |-> "UnexpectedCharacterAfterQuote",
                           ch |-> ch,
                           field |-> Len(d.fields) + 1,
                           record |-> record_number(d)])
            ELSE LET t == IF d.state # "IN_FIELD"
                          THEN transition(d, "IN_FIELD")
                          ELSE d
                 IN  IF Failed(t) THEN t
                     ELSE [t EXCEPT !.builder = StringBuilder_append(t.builder, ch)]
    IN  IF ch = Comma /\ ~has_unbalanced_doublequotes(d)
        THEN end_field(d)
        ELSE IF ch = Newline
        THEN IF has_unbalanced_doublequotes(d)
             THEN [d EXCEPT !.builder = StringBuilder_append(d.builder, ch)]
             ELSE end_record(d)
        ELSE content

\* process_doublequote with the test of line 214 lost: a double-quote in
\* an unquoted field is counted
process_doublequote_lenient(p) ==
    CASE p.state \in {"BEGIN", "END_OF_FIELD", "END_OF_RECORD"} ->
            transition([p EXCEPT !.doublequotes_in_field = 1], "IN_FIELD")
      [] p.state = "IN_FIELD" ->
            transition(
                [p EXCEPT !.doublequotes_in_field = p.doublequotes_in_field + 1],
                "QUOTE_IN_FIELD")
      [] p.state = "QUOTE_IN_FIELD" ->
            LET q == [p EXCEPT !.doublequotes_in_field = p.doublequotes_in_field + 1]
                a == IF has_unbalanced_doublequotes(q)
                     THEN [q EXCEPT !.builder = StringBuilder_append(q.builder, DoubleQuote)]
                     ELSE q
            IN  transition(a, "IN_FIELD")
      [] OTHER -> Raise(p, [kind |-> "UnexpectedState", state |-> p.state])

\* process_doublequote with END_OF_RECORD missing from the case of line 210
process_doublequote_misses_state(p) ==
    CASE p.state \in {"BEGIN", "END_OF_FIELD"} ->
            transition([p EXCEPT !.doublequotes_in_field = 1], "IN_FIELD")
      [] p.state = "IN_FIELD" ->
            IF p.doublequotes_in_field = 0
            THEN Raise(p, [kind |-> "UnexpectedDoubleQuote",
                           record |-> record_number(p),
                           position |-> StringBuilder_len(p.builder) + 1,
                           field |-> Len(p.fields) + 1])
            ELSE transition(
                     [p EXCEPT !.doublequotes_in_field = p.doublequotes_in_field + 1],
                     "QUOTE_IN_FIELD")
      [] p.state = "QUOTE_IN_FIELD" ->
            LET q == [p EXCEPT !.doublequotes_in_field = p.doublequotes_in_field + 1]
                a == IF has_unbalanced_doublequotes(q)
                     THEN [q EXCEPT !.builder = StringBuilder_append(q.builder, DoubleQuote)]
                     ELSE q
            IN  transition(a, "IN_FIELD")
      [] OTHER -> Raise(p, [kind |-> "UnexpectedState", state |-> p.state])

\* process_doublequote with the transition of line 228 lost: a double-quote
\* after a double-quote leaves the state QUOTE_IN_FIELD
process_doublequote_stays_quoted(p) ==
    CASE p.state \in {"BEGIN", "END_OF_FIELD", "END_OF_RECORD"} ->
            transition([p EXCEPT !.doublequotes_in_field = 1], "IN_FIELD")
      [] p.state = "IN_FIELD" ->
            IF p.doublequotes_in_field = 0
            THEN Raise(p, [kind |-> "UnexpectedDoubleQuote",
                           record |-> record_number(p),
                           position |-> StringBuilder_len(p.builder) + 1,
                           field |-> Len(p.fields) + 1])
            ELSE transition(
                     [p EXCEPT !.doublequotes_in_field = p.doublequotes_in_field + 1],
                     "QUOTE_IN_FIELD")
      [] p.state = "QUOTE_IN_FIELD" ->
            LET q == [p EXCEPT !.doublequotes_in_field = p.doublequotes_in_field + 1]
            IN  IF has_unbalanced_doublequotes(q)
                THEN [q EXCEPT !.builder = StringBuilder_append(q.builder, DoubleQuote)]
                ELSE q
      [] OTHER -> Raise(p, [kind |-> "UnexpectedState", state |-> p.state])

\* process_doublequote with the increment of line 221 lost: a double-quote
\* after a double-quote is not counted
process_doublequote_uncounted(p) ==
    CASE p.state \in {"BEGIN", "END_OF_FIELD", "END_OF_RECORD"} ->
            transition([p EXCEPT !.doublequotes_in_field = 1], "IN_FIELD")
      [] p.state = "IN_FIELD" ->
            IF p.doublequotes_in_field = 0
            THEN Raise(p, [kind |-> "UnexpectedDoubleQuote",
                           record |-> record_number(p),
                           position |-> StringBuilder_len(p.builder) + 1,
                           field |-> Len(p.fields) + 1])
            ELSE transition(
                     [p EXCEPT !.doublequotes_in_field = p.doublequotes_in_field + 1],
                     "QUOTE_IN_FIELD")
      [] p.state = "QUOTE_IN_FIELD" ->
            LET a == IF has_unbalanced_doublequotes(p)
                     THEN [p EXCEPT !.builder = StringBuilder_append(p.builder, DoubleQuote)]
                     ELSE p
            IN  transition(a, "IN_FIELD")
      [] OTHER -> Raise(p, [kind |-> "UnexpectedState", state |-> p.state])

\* process_doublequote with the append of line 227 lost: the second quote
\* of an escape pair emits nothing
process_doublequote_drops_escape(p) ==
    CASE p.state \in {"BEGIN", "END_OF_FIELD", "END_OF_RECORD"} ->
            transition([p EXCEPT !.doublequotes_in_field = 1], "IN_FIELD")
      [] p.state = "IN_FIELD" ->
            IF p.doublequotes_in_field = 0
            THEN Raise(p, [kind |-> "UnexpectedDoubleQuote",
                           record |-> record_number(p),
                           position |-> StringBuilder_len(p.builder) + 1,
                           field |-> Len(p.fields) + 1])
            ELSE transition(
                     [p EXCEPT !.doublequotes_in_field = p.doublequotes_in_field + 1],
                     "QUOTE_IN_FIELD")
      [] p.state = "QUOTE_IN_FIELD" ->
            transition(
                [p EXCEPT !.doublequotes_in_field = p.doublequotes_in_field + 1],
                "IN_FIELD")
      [] OTHER -> Raise(p, [kind |-> "UnexpectedState", state |-> p.state])

\* CsvParser.process_doublequote
process_doublequote(p) ==
    CASE p.state \in {"BEGIN", "END_OF_FIELD", "END_OF_RECORD"} ->
            transition([p EXCEPT !.doublequotes_in_field = 1], "IN_FIELD")
      [] p.state = "IN_FIELD" ->
            IF p.doublequotes_in_field = 0
            THEN Raise(p, [kind |-> "UnexpectedDoubleQuote",
                           record |-> record_number(p),
                           position |-> StringBuilder_len(p.builder) + 1,
                           field |-> Len(p.fields) + 1])
            ELSE transition(
                     [p EXCEPT !.doublequotes_in_field = p.doublequotes_in_field + 1],
                     "QUOTE_IN_FIELD")
      [] p.state = "QUOTE_IN_FIELD" ->
            LET q == [p EXCEPT !.doublequotes_in_field = p.doublequotes_in_field + 1]
                a == IF has_unbalanced_doublequotes(q)
                     THEN [q EXCEPT !.builder = StringBuilder_append(q.builder, DoubleQuote)]
                     ELSE q
            IN  transition(a, "IN_FIELD")
      [] OTHER -> Raise(p, [kind |-> "UnexpectedState", state |-> p.state])

\* CsvParser.parse, lines 244-248: the dispatch on one character
parse_char(p, c) ==
    IF c = DoubleQuote THEN process_doublequote(p) ELSE process_char(p, c)

\* parse_end that ends no record when nothing was read: the test of line
\* 249 also passes over the state BEGIN
parse_end_skips_empty(p) ==
    LET r == IF p.state \notin {"END_OF_RECORD", "BEGIN"}
             THEN end_record(p)
             ELSE p
    IN  IF Failed(r) THEN r ELSE transition(r, "END")

\* parse_end that makes the transition of line 251 whether or not the last
\* record ended
parse_end_ends_anyway(p) ==
    LET r == IF p.state # "END_OF_RECORD" THEN end_record(p) ELSE p
    IN  [r EXCEPT !.state = "END"]

\* parse_end with the state test of line 249 lost: the end of the input
\* always ends a record
parse_end_always_ends(p) ==
    LET r == end_record(p)
    IN  IF Failed(r) THEN r ELSE transition(r, "END")

\* CsvParser.parse, lines 249-251: the source is exhausted
parse_end(p) ==
    LET r == IF p.state # "END_OF_RECORD" THEN end_record(p) ELSE p
    IN  IF Failed(r) THEN r ELSE transition(r, "END")

\* CsvParser.parse, line 242: leaving the with block, by return or by raise
parse_exit(p) == [p EXCEPT !.builder = StringBuilder_exit(p.builder)]

\* CsvParser.parse, line 242: entering the with block
parse_enter(p) == [p EXCEPT !.builder = StringBuilder_new, !.error = NoError]

\* CsvParser.parse, lines 243-251, from inside the with block: the
\* characters of s are dispatched in order until one raises, then the end
RECURSIVE parse_from(_, _)
parse_from(p, s) ==
    IF s = <<>>
    THEN parse_exit(parse_end(p))
    ELSE LET q == parse_char(p, Head(s))
         IN  IF Failed(q) THEN parse_exit(q) ELSE parse_from(q, Tail(s))

\* CsvParser.parse on a stream holding the characters s
parse(p, s) == parse_from(parse_enter(p), s)

\* reset with line 257 lost: fields_per_record survives
reset_keeps_count(p) ==
    LET t == transition(p, initial_state)
    IN  IF Failed(t) THEN t
        ELSE [t EXCEPT !.fields = <<>>,
                       !.doublequotes_in_field = 0]

\* CsvParser.reset
reset(p) ==
    LET t == transition(p, initial_state)
    IN  IF Failed(t) THEN t
        ELSE [t EXCEPT !.fields = <<>>,
                       !.fields_per_record = None,
                       !.doublequotes_in_field = 0]

---------------------------------------------------------------------------
(* src/src/csv_parser.py: the record access of a parser.  A call gives     *)
(* [kind |-> "value", value |-> v] or [kind |-> <the exception raised>].   *)

Value(v) == [kind |-> "value", value |-> v]

\* a[start:stop] of Python for 0 <= start <= stop: clipped to the list
Slice(a, start, stop) ==
    SubSeq(a, start + 1, IF stop < Len(a) THEN stop ELSE Len(a))

\* CsvParser.__getitem__ with an integer key.  An arithmetic or ordering
\* operation on fields_per_record = None raises TypeError.
getitem(p, key) ==
    LET field_count == Len(p.fields)
        fpr == p.fields_per_record
    IN  IF fpr = None
        THEN [kind |-> "TypeError"]
        ELSE IF key < 0
        THEN IF field_count <= fpr
             THEN [kind |-> "IndexError"]
             ELSE LET factor == (field_count \div fpr) + key
                  IN  IF factor < 0
                      THEN [kind |-> "IndexError"]
                      ELSE Value(Slice(p.fields, factor * fpr,
                                       factor * fpr + fpr))
        ELSE IF key * fpr >= field_count
             THEN [kind |-> "IndexError"]
             ELSE Value(Slice(p.fields, key * fpr, key * fpr + fpr))

\* CsvParser.__len__
len_parser(p) == IF Len(p.fields) = 0 THEN 0 ELSE record_number(p)

\* CsvParser.__iter__, run to its end: the list of the records yielded, or
\* the exception of the first self[i] that raises
iter_parser(p) ==
    LET n == len_parser(p)
        item(i) == getitem(p, i - 1)
    IN  IF \A i \in 1..n : item(i).kind = "value"
        THEN Value([i \in 1..n |-> item(i).value])
        ELSE LET bad == CHOOSE i \in 1..n :
                            /\ item(i).kind # "value"
                            /\ \A j \in 1..(i - 1) : item(j).kind = "value"
             IN  item(bad)

---------------------------------------------------------------------------
(* src/src/gumball_machine.py.  A machine is the record                    *)
(*   [state, gumballs, error, log]                                         *)
(* where error is the exception of the call in progress and log the hook   *)
(* calls observed during it.                                               *)

GumballStates == {"SOLD_OUT", "NO_COIN", "HAS_COIN"}

\* StateMachineMeta: the first member of the enumeration
gumball_initial_state == "SOLD_OUT"

\* a state of another enumeration, which is no state of a GumballMachine
ForeignState == "BEGIN"

\* a call starts with no exception raised and no hook observed
Called(m) == [m EXCEPT !.error = NoError, !.log = <<>>]

\* add_gumballs with the test of lines 44-45 lost: any number is added
GumballMachine_add_gumballs_unchecked(m, gumballs) ==
    LET a == [m EXCEPT !.gumballs = m.gumballs + gumballs]
    IN  IF a.state = "SOLD_OUT"
        THEN transition_in(GumballStates, a, "NO_COIN")
        ELSE a

\* GumballMachine.add_gumballs
GumballMachine_add_gumballs(m, gumballs) ==
    IF gumballs < 1
    THEN Raise(m, [kind |-> "ValueError"])
    ELSE LET a == [m EXCEPT !.gumballs = m.gumballs + gumballs]
         IN  IF a.state = "SOLD_OUT"
             THEN transition_in(GumballStates, a, "NO_COIN")
             ELSE a

\* GumballMachine.__init__
GumballMachine_init(gumballs) ==
    LET m == [state |-> gumball_initial_state, gumballs |-> 0,
              error |-> NoError, log |-> <<>>]
    IN  IF gumballs > 0 THEN GumballMachine_add_gumballs(m, gumballs) ELSE m

\* GumballMachine.eject_coin
GumballMachine_eject_coin(m, is_extra) ==
    IF m.state = "HAS_COIN"
    THEN IF is_extra THEN m ELSE transition_in(GumballStates, m, "NO_COIN")
    ELSE m

\* GumballMachine.insert_coin
GumballMachine_insert_coin(m) ==
    IF m.state = "NO_COIN"
    THEN transition_in(GumballStates, m, "HAS_COIN")
    ELSE GumballMachine_eject_coin(m, m.state = "HAS_COIN")

\* turn_crank with the state test of line 89 lost: the crank always dispenses
GumballMachine_turn_crank_always(m) ==
    LET d == [m EXCEPT !.gumballs = m.gumballs - 1]
    IN  transition_in(GumballStates, d,
                      IF d.gumballs = 0 THEN "SOLD_OUT" ELSE "NO_COIN")

\* GumballMachine.turn_crank
GumballMachine_turn_crank(m) ==
    IF m.state # "HAS_COIN"
    THEN m
    ELSE LET d == [m EXCEPT !.gumballs = m.gumballs - 1]
         IN  transition_in(GumballStates, d,
                           IF d.gumballs = 0 THEN "SOLD_OUT" ELSE "NO_COIN")

\* StateMachineBase.reset on a GumballMachine
StateMachineBase_reset(m) ==
    transition_in(GumballStates, m, gumball_initial_state)

\* GumballMachine.reset
GumballMachine_reset(m) ==
    LET t == StateMachineBase_reset(m)
    IN  IF Failed(t) THEN t ELSE [t EXCEPT !.gumballs = 0]

---------------------------------------------------------------------------
(* The parser object of the model and the calls made on it *)

Parser ==
    [state |-> state,
     fields |-> fields,
     fields_per_record |-> fields_per_record,
     doublequotes_in_field |-> doublequotes_in_field,
     builder |-> builder,
     error |-> error]

SetParser(q) ==
    /\ state' = q.state
    /\ fields' = q.fields
    /\ fields_per_record' = q.fields_per_record
    /\ doublequotes_in_field' = q.doublequotes_in_field
    /\ builder' = q.builder
    /\ error' = q.error

NoResult == [kind |-> "none", op |-> "none"]

\* history: the fields a step from p to q appended to the field list
Appended(p, q) == SubSeq(q.fields, Len(p.fields) + 1, Len(q.fields))

\* the texts given to StringBuilder.append
Texts == UNION {[1..n -> {"a", "b"}] : n \in 0..MaxText}

NoRead == [op |-> "none", value |-> <<>>]

\* CsvParser()
ParserInit ==
    /\ state = CsvParser_init.state
    /\ fields = CsvParser_init.fields
    /\ fields_per_record = CsvParser_init.fields_per_record
    /\ doublequotes_in_field = CsvParser_init.doublequotes_in_field
    /\ builder = CsvParser_init.builder
    /\ error = CsvParser_init.error
    /\ pc = "idle"
    /\ consumed = <<>>
    /\ records = <<>>
    /\ current = <<>>
    /\ previous = "none"
    /\ result = NoResult

\* GumballMachine(gumballs)
MachineInit(gumballs) ==
    /\ machine = GumballMachine_init(gumballs)
    /\ call = [name |-> "__init__", arg |-> gumballs]

\* StringBuilder()
BuilderInit ==
    /\ sb = StringBuilder_new
    /\ text = <<>>
    /\ read = NoRead

Init == ParserInit /\ MachineInit(0) /\ BuilderInit

\* the caller calls parse(read_from): the with block is entered
StartParse ==
    /\ pc = "idle"
    /\ SetParser(parse_enter(Parser))
    /\ pc' = "parsing"
    /\ result' = NoResult
    /\ UNCHANGED <<consumed, records, current, previous>>
    /\ UNCHANGED <<machineVars, builderVars>>

\* each_character_of yields the character c and parse dispatches on it
ParseChar(c) ==
    /\ pc = "parsing"
    /\ Len(consumed) < MaxLen
    /\ LET q == parse_char(Parser, c)
           added == Appended(Parser, q)
       IN  /\ consumed' = Append(consumed, c)
           /\ IF Failed(q)
              THEN /\ SetParser(parse_exit(q))
                   /\ pc' = "raised"
                   /\ records' = records
                   /\ current' = current \o added
              ELSE /\ SetParser(q)
                   /\ pc' = "parsing"
                   /\ IF q.state = "END_OF_RECORD" /\ added # <<>>
                      THEN /\ records' = Append(records, current \o added)
                           /\ current' = <<>>
                      ELSE /\ records' = records
                           /\ current' = current \o added
    /\ UNCHANGED <<previous, result, machineVars, builderVars>>

\* each_character_of is exhausted: parse finishes the last record and returns
ParseEnd ==
    /\ pc = "parsing"
    /\ LET q == parse_end(Parser)
           added == Appended(Parser, q)
       IN  /\ SetParser(parse_exit(q))
           /\ IF Failed(q)
              THEN /\ pc' = "raised"
                   /\ records' = records
                   /\ current' = current \o added
              ELSE /\ pc' = "returned"
                   /\ IF added # <<>>
                      THEN /\ records' = Append(records, current \o added)
                           /\ current' = <<>>
                      ELSE UNCHANGED <<records, current>>
    /\ UNCHANGED <<consumed, previous, result, machineVars, builderVars>>

\* the caller calls reset(); the exception of an earlier parse is gone
Reset ==
    /\ pc \in {"idle", "returned", "raised"}
    /\ SetParser(reset([Parser EXCEPT !.error = NoError]))
    /\ pc' = "idle"
    /\ consumed' = <<>>
    /\ records' = <<>>
    /\ current' = <<>>
    /\ previous' = IF pc = "idle" THEN previous ELSE pc
    /\ result' = NoResult
    /\ UNCHANGED <<machineVars, builderVars>>

\* the caller evaluates parser[key]
GetItem(key) ==
    /\ pc \in {"idle", "returned", "raised"}
    /\ result' = getitem(Parser, key) @@ [op |-> "getitem", key |-> key]
    /\ UNCHANGED <<state, fields, fields_per_record, doublequotes_in_field,
                   builder, error, pc, consumed, records, current, previous,
                   machineVars, builderVars>>

\* the caller evaluates len(parser)
LenCall ==
    /\ pc \in {"idle", "returned", "raised"}
    /\ result' = Value(len_parser(Parser)) @@ [op |-> "len"]
    /\ UNCHANGED <<state, fields, fields_per_record, doublequotes_in_field,
                   builder, error, pc, consumed, records, current, previous,
                   machineVars, builderVars>>

\* the caller runs `for record in parser` to its end
Iterate ==
    /\ pc \in {"idle", "returned", "raised"}
    /\ result' = iter_parser(Parser) @@ [op |-> "iter"]
    /\ UNCHANGED <<state, fields, fields_per_record, doublequotes_in_field,
                   builder, error, pc, consumed, records, current, previous,
                   machineVars, builderVars>>

Next ==
    \/ StartParse
    \/ \E c \in Alphabet : ParseChar(c)
    \/ ParseEnd
    \/ Reset
    \/ \E key \in (-MaxKey)..MaxKey : GetItem(key)
    \/ LenCall
    \/ Iterate

Spec == Init /\ [][Next]_vars

---------------------------------------------------------------------------
(* The calls made on a GumballMachine *)

SetMachine(name, arg, m) ==
    /\ machine' = m
    /\ call' = [name |-> name, arg |-> arg]
    /\ UNCHANGED <<parserVars, builderVars>>

\* the caller calls add_gumballs(n)
AddGumballs(n) ==
    /\ machine.gumballs + n <= MaxGumballs
    /\ SetMachine("add_gumballs", n, GumballMachine_add_gumballs(Called(machine), n))

\* the caller calls insert_coin()
InsertCoin ==
    SetMachine("insert_coin", 0, GumballMachine_insert_coin(Called(machine)))

\* the caller calls eject_coin() or eject_coin(is_extra)
EjectCoin(is_extra) ==
    SetMachine("eject_coin", is_extra,
               GumballMachine_eject_coin(Called(machine), is_extra))

\* the caller calls turn_crank()
\* (the guard bounds the model: after transition(HAS_COIN) calls made by the
\* caller the inventory can fall below zero without end)
TurnCrank ==
    /\ machine.gumballs > -MaxGumballs
    /\ SetMachine("turn_crank", 0, GumballMachine_turn_crank(Called(machine)))

\* the caller calls reset()
ResetMachine ==
    SetMachine("reset", 0, GumballMachine_reset(Called(machine)))

\* the caller calls transition(to_state), a method every machine inherits
Transition(to_state) ==
    SetMachine("transition", to_state,
               transition_in(GumballStates, Called(machine), to_state))

MachineNext ==
    \/ \E n \in (-1)..MaxGumballs : AddGumballs(n)
    \/ InsertCoin
    \/ \E is_extra \in BOOLEAN : EjectCoin(is_extra)
    \/ TurnCrank
    \/ ResetMachine

\* a GumballMachine driven through its own methods
MachineSpecInit ==
    /\ ParserInit
    /\ BuilderInit
    /\ \E n \in (-1)..MaxGumballs : MachineInit(n)

MachineSpec == MachineSpecInit /\ [][MachineNext]_vars

TransitionNext ==
    \/ MachineNext
    \/ \E to_state \in GumballStates \cup {ForeignState} : Transition(to_state)

\* a GumballMachine driven through its own methods and the inherited
\* transition(to_state)
TransitionSpec == MachineSpecInit /\ [][TransitionNext]_vars

---------------------------------------------------------------------------
(* The calls made on a StringBuilder used on its own *)

\* the caller calls append(t)
BuilderAppend(t) ==
    /\ StringBuilder_len(sb) + Len(t) <= MaxBuilt
    /\ sb' = StringBuilder_append_text(sb, t)
    /\ text' = text \o t
    /\ read' = [op |-> "append", value |-> <<>>]
    /\ UNCHANGED <<parserVars, machineVars>>

\* the caller calls clear()
BuilderClear ==
    /\ sb' = StringBuilder_clear(sb)
    /\ text' = <<>>
    /\ read' = [op |-> "clear", value |-> <<>>]
    /\ UNCHANGED <<parserVars, machineVars>>

\* the caller evaluates len(builder)
BuilderLen ==
    /\ read' = [op |-> "len", value |-> StringBuilder_len(sb)]
    /\ UNCHANGED <<sb, text, parserVars, machineVars>>

\* the caller evaluates str(builder)
BuilderStr ==
    /\ read' = [op |-> "str", value |-> StringBuilder_str(sb)]
    /\ sb' = StringBuilder_truncate(sb)
    /\ UNCHANGED <<text, parserVars, machineVars>>

\* the caller calls build(), which is str(self)
BuilderBuild ==
    /\ read' = [op |-> "build", value |-> StringBuilder_str(sb)]
    /\ sb' = StringBuilder_truncate(sb)
    /\ UNCHANGED <<text, parserVars, machineVars>>

BuilderNext ==
    \/ \E t \in Texts : BuilderAppend(t)
    \/ BuilderClear
    \/ BuilderLen
    \/ BuilderStr
    \/ BuilderBuild

BuilderSpec == Init /\ [][BuilderNext]_vars

---------------------------------------------------------------------------
(* Reference notions of the input, stated on the characters alone *)

Range(f) == {f[i] : i \in DOMAIN f}

CountQuotes(s) == Cardinality({i \in DOMAIN s : s[i] = DoubleQuote})

\* the character at i stands outside quotes: an even number of double-quotes
\* precedes it
Unquoted(s, i) == CountQuotes(SubSeq(s, 1, i - 1)) % 2 = 0

UnquotedNewlines(s) ==
    Cardinality({i \in DOMAIN s : s[i] = Newline /\ Unquoted(s, i)})

\* the commas and newlines of s that end a field
UnquotedDelimiters(s) ==
    Cardinality({i \in DOMAIN s : s[i] \in {Comma, Newline} /\ Unquoted(s, i)})

EndsInUnquotedNewline(s) ==
    s # <<>> /\ s[Len(s)] = Newline /\ Unquoted(s, Len(s))

\* the content c with every double-quote doubled
RECURSIVE Doubled(_)
Doubled(c) ==
    IF c = <<>> THEN <<>>
    ELSE IF Head(c) = DoubleQuote
    THEN <<DoubleQuote, DoubleQuote>> \o Doubled(Tail(c))
    ELSE <<Head(c)>> \o Doubled(Tail(c))

\* the quoted encoding of the content c
Encode(c) == <<DoubleQuote>> \o Doubled(c) \o <<DoubleQuote>>

\* the only content whose doubling can be m: every pair of double-quotes read
\* as one
RECURSIVE Undoubled(_)
Undoubled(m) ==
    IF m = <<>> THEN <<>>
    ELSE IF Head(m) = DoubleQuote /\ Len(m) >= 2 /\ m[2] = DoubleQuote
    THEN <<DoubleQuote>> \o Undoubled(Tail(Tail(m)))
    ELSE <<Head(m)>> \o Undoubled(Tail(m))

\* r is the quoted encoding of the content c
IsEncodingOf(r, c) == r = Encode(c)

\* the content r encodes, if it encodes one
Decoded(r) == Undoubled(SubSeq(r, 2, Len(r) - 1))

\* a field starts after the first k characters of s
FieldStart(s, k) ==
    k = 0 \/ (s[k] \in {Comma, Newline} /\ Unquoted(s, k))

QuotingErrors == {"UnexpectedDoubleQuote", "UnbalancedDoubleQuotes",
                  "MustEndWithDoubleQuote", "UnexpectedCharacterAfterQuote"}

---------------------------------------------------------------------------
(* The claims *)

\* C1: a parse that returns without an error only completed records whose
\* field count equals fields_per_record (and so the first record's count).
C1_FieldCountConsistency ==
    pc = "returned" =>
        \A i \in DOMAIN records : Len(records[i]) = fields_per_record

\* C2: parsing the quoted encoding of a content c (opening double-quote, c
\* with every double-quote doubled, closing double-quote), followed by a
\* comma, a newline or the end of the input, makes the field at that place
\* of the input equal to c, and no quoting error is raised.
C2_EscapingRoundTrip ==
    \A k \in 0..Len(consumed) :
        LET rest == SubSeq(consumed, k + 1, Len(consumed))
            body == IF rest # <<>> /\ rest[Len(rest)] \in {Comma, Newline}
                    THEN SubSeq(rest, 1, Len(rest) - 1)
                    ELSE rest
            ended == body # rest \/ pc \in {"returned", "raised"}
            c == Decoded(body)
            place == UnquotedDelimiters(SubSeq(consumed, 1, k)) + 1
        IN  (FieldStart(consumed, k) /\ Len(body) >= 2 /\ IsEncodingOf(body, c)
                /\ ended)
            => /\ Len(fields) >= place
               /\ fields[place] = c
               /\ error.kind \notin QuotingErrors

C2_Witness ==
    /\ pc = "returned"
    /\ Len(fields) = 2
    /\ fields[2] = <<DoubleQuote>>
    /\ consumed = <<Comma>> \o Encode(<<DoubleQuote>>)

\* C3: a comma or newline processed while doublequotes_in_field is odd is
\* appended to the field being built and leaves the field list,
\* fields_per_record and the record count unchanged; processed while the
\* counter is even, a comma ends the field (one field appended, state
\* END_OF_FIELD) and a newline ends the field and the record (state
\* END_OF_RECORD).
C3_DelimitersInsideQuotes ==
    [][ (pc = "parsing" /\ Len(consumed') = Len(consumed) + 1
            /\ consumed'[Len(consumed')] \in {Comma, Newline})
        => IF doublequotes_in_field % 2 = 1
           THEN /\ StringBuilder_str(builder') =
                       Append(StringBuilder_str(builder), consumed'[Len(consumed')])
                /\ fields' = fields
                /\ fields_per_record' = fields_per_record
                /\ records' = records
                /\ len_parser(Parser') = len_parser(Parser)
                /\ pc' = "parsing"
           ELSE /\ fields' = Append(fields, StringBuilder_str(builder))
                /\ IF consumed'[Len(consumed')] = Comma
                   THEN /\ state' = "END_OF_FIELD"
                        /\ records' = records
                        /\ pc' = "parsing"
                   ELSE /\ state' = "END_OF_RECORD"
                        /\ (pc' = "parsing" =>
                               records' = Append(records,
                                   Append(current, StringBuilder_str(builder))))
      ]_vars

C3_Witness ==
    /\ pc = "returned"
    /\ consumed = <<DoubleQuote, Comma, DoubleQuote, Comma, Newline>>
    /\ fields = << <<Comma>>, <<>> >>
    /\ Len(records) = 1

\* C4: when parse returns without raising, the state is END,
\* fields_per_record is the first record's field count, len(fields) is
\* fields_per_record * record_number and len(parser) is record_number.
C4_StateAfterSuccess ==
    pc = "returned" =>
        /\ state = "END"
        /\ records # <<>>
        /\ fields_per_record = Len(records[1])
        /\ Len(fields) = fields_per_record * record_number(Parser)
        /\ len_parser(Parser) = record_number(Parser)
        /\ (result.op = "len" => result = Value(record_number(Parser)) @@ [op |-> "len"])

C4_Witness ==
    /\ pc = "returned"
    /\ Len(records) = 2
    /\ fields_per_record = 2
    /\ result.op = "len"

\* C5: a quoting error reports the offending field's 1-based position
\* within its own record and the 1-based number of the record holding it.
C5_ErrorPosition ==
    error.kind \in QuotingErrors =>
        /\ error.field = Len(current) + 1
        /\ error.record = Len(records) + 1

\* C6: a field-count mismatch reports the 1-based number of the mismatching
\* record, the number of fields observed in it and the expected count.
C6_MismatchReport ==
    error.kind = "FieldCountMismatch" =>
        /\ error.record = Len(records) + 1
        /\ error.found = Len(current)
        /\ error.expected = fields_per_record

\* C7: for an input s not ending in an unquoted newline, parsing s and
\* parsing s followed by a newline have the same outcome (both raise, or
\* both return with the same fields, fields_per_record and record count in
\* state END); the last record is ended exactly once: a returned parse has
\* completed one record per unquoted newline, and one more only if the
\* input does not end in an unquoted newline.
C7_EndOfInputTermination ==
    /\ (pc \in {"returned", "raised"} /\ ~EndsInUnquotedNewline(consumed))
        => LET other == parse(CsvParser_init, Append(consumed, Newline))
           IN  \/ Failed(Parser) /\ Failed(other) /\ pc = "raised"
               \/ /\ ~Failed(Parser) /\ ~Failed(other) /\ pc = "returned"
                  /\ other.fields = fields
                  /\ other.fields_per_record = fields_per_record
                  /\ len_parser(other) = len_parser(Parser)
                  /\ other.state = "END" /\ state = "END"
    /\ pc = "returned"
        => Len(records) = UnquotedNewlines(consumed)
               + (IF EndsInUnquotedNewline(consumed) THEN 0 ELSE 1)

C7_Witness ==
    /\ pc = "returned"
    /\ ~EndsInUnquotedNewline(consumed)
    /\ Len(records) = 2
    /\ fields_per_record = 2

\* C8: after an earlier parse, returned or raised, reset() leaves the parser
\* in BEGIN with no fields, fields_per_record unset and the quote counter 0,
\* and a following parse ends as the parse of the same stream on a newly
\* constructed parser does.
C8_ResetThenParse ==
    previous # "none" =>
        /\ pc = "idle" => /\ state = "BEGIN"
                          /\ fields = <<>>
                          /\ fields_per_record = None
                          /\ doublequotes_in_field = 0
        /\ pc \in {"returned", "raised"} =>
               Parser = parse(CsvParser_init, consumed)

C8_Witness ==
    /\ previous = "raised"
    /\ pc = "returned"
    /\ Len(records) = 2
    /\ fields_per_record = 2

\* C9: after a successful parse with n records, parser[i] for 0 <= i < n is
\* record i, parser[-k] is parser[n-k] for k in 1..n, any other index
\* raises IndexError, and iterating yields the n records in order.
C9_RecordIndexing ==
    pc = "returned" =>
        LET n == Len(records)
        IN  /\ result.op = "getitem" =>
                  result.kind =
                      IF -n <= result.key /\ result.key < n
                      THEN "value" ELSE "IndexError"
            /\ (result.op = "getitem" /\ result.kind = "value") =>
                  result.value =
                      records[(IF result.key < 0 THEN n + result.key
                                                 ELSE result.key) + 1]
            /\ result.op = "iter" =>
                  result.kind = "value" /\ result.value = records

\* C10: when parse raises, the records seen through len, indexing and
\* iteration are the records completed before the failing record.
C10_NoPartialRecord ==
    pc = "raised" =>
        /\ len_parser(Parser) = Len(records)
        /\ iter_parser(Parser) = Value(records)
        /\ \A i \in DOMAIN records : getitem(Parser, i - 1) = Value(records[i])
        /\ getitem(Parser, Len(records)).kind # "value"

\* history: the fields of the records rs, in order
RECURSIVE Flattened(_)
Flattened(rs) == IF rs = <<>> THEN <<>> ELSE Head(rs) \o Flattened(Tail(rs))

\* the step reads the character c of the input
Reads(c) == pc = "parsing" /\ consumed' = Append(consumed, c)

\* the step is the end of the input
ReadsEnd == pc = "parsing" /\ pc' # "parsing" /\ consumed' = consumed

C13_UnexpectedDoubleQuote ==
    [][ (Reads(DoubleQuote) /\ state = "IN_FIELD" /\ doublequotes_in_field = 0)
        => /\ pc' = "raised"
           /\ error'.kind = "UnexpectedDoubleQuote"
           /\ state' = state
           /\ fields' = fields
           /\ doublequotes_in_field' = doublequotes_in_field
      ]_vars

C13_Witness ==
    /\ pc = "raised"
    /\ error.kind = "UnexpectedDoubleQuote"
    /\ state = "IN_FIELD"
    /\ Len(fields) = 1

\* C14: a character other than double-quote, comma and newline processed in
\* QUOTE_IN_FIELD with an even counter makes parse raise CsvParseException
\* and is appended to no field; so in an input parsed without error every
\* double-quote inside quotes is followed by a double-quote (an escape
\* pair), a comma, a newline or the end of the input.
C14_CharacterAfterClosingQuote ==
    [][ /\ \A c \in Alphabet \ {DoubleQuote, Comma, Newline} :
              (Reads(c) /\ state = "QUOTE_IN_FIELD"
                  /\ doublequotes_in_field % 2 = 0)
              => /\ pc' = "raised"
                 /\ error'.kind = "UnexpectedCharacterAfterQuote"
                 /\ fields' = fields
                 /\ state' = state
        /\ pc' = "returned"
              => \A i \in DOMAIN consumed' :
                    (consumed'[i] = DoubleQuote /\ ~Unquoted(consumed', i))
                    => \/ i = Len(consumed')
                       \/ consumed'[i + 1] \in {DoubleQuote, Comma, Newline}
      ]_vars

C14_Witness ==
    /\ pc = "raised"
    /\ error.kind = "UnexpectedCharacterAfterQuote"
    /\ Len(fields) = 1

\* C15: no field is appended while doublequotes_in_field is odd; when the
\* input ends with the counter odd, parse raises CsvParseException, appends
\* no field and does not reach END.
C15_UnbalancedQuotes ==
    [][ /\ (pc = "parsing" /\ Len(fields') > Len(fields))
              => doublequotes_in_field % 2 = 0
        /\ (ReadsEnd /\ doublequotes_in_field % 2 = 1)
              => /\ pc' = "raised"
                 /\ error'.kind = "UnbalancedDoubleQuotes"
                 /\ fields' = fields
                 /\ state' # "END"
      ]_vars

C15_Witness ==
    /\ pc = "raised"
    /\ error.kind = "UnbalancedDoubleQuotes"
    /\ doublequotes_in_field = 3

\* C16: fields_per_record is unset until the first record ends, is set by
\* that end to the first record's field count, and is changed by nothing
\* else of the parse, an error included; only reset() unsets it.
C16_FieldsPerRecordWriteOnce ==
    [][ /\ fields_per_record' # fields_per_record
              => \/ /\ fields_per_record = None
                    /\ pc = "parsing"
                    /\ records = <<>>
                    /\ records' # <<>>
                 \/ /\ fields_per_record' = None
                    /\ pc \in {"returned", "raised"}
                    /\ pc' = "idle"
        /\ fields_per_record' =
              IF records' = <<>> THEN None ELSE Len(records'[1])
      ]_vars

C16_Witness ==
    /\ pc = "raised"
    /\ error.kind = "FieldCountMismatch"
    /\ Len(records) = 1
    /\ fields_per_record = 2

\* C17: the state becomes END only at the end of the input, when the last
\* record has ended without error; nothing of the parse leaves END (only a
\* reset() does); a parse that raises is not in END and a parse that returns
\* is.
C17_TerminalState ==
    [][ /\ (state' = "END" /\ state # "END")
              => /\ ReadsEnd
                 /\ pc' = "returned"
                 /\ error' = NoError
                 /\ current' = <<>>
                 /\ records' # <<>>
        /\ (state = "END" /\ state' # "END") => pc' = "idle"
        /\ pc' = "raised" => state' # "END"
        /\ pc' = "returned" => state' = "END"
      ]_vars

C17_Witness ==
    /\ pc = "returned"
    /\ state = "END"
    /\ Len(consumed) = 4
    /\ Len(records) = 2

\* C20: in a parse started on a new or reset parser a double-quote is only
\* processed in BEGIN, IN_FIELD, QUOTE_IN_FIELD, END_OF_FIELD or
\* END_OF_RECORD: the 'Unexpected state' exception is never raised and
\* transition() is never given a state outside the declared set.
C20_NoUnexpectedState ==
    /\ pc = "parsing" => state \in States \ {"END"}
    /\ error.kind \notin {"UnexpectedState", "TypeError"}

C20_Witness ==
    /\ pc = "parsing"
    /\ consumed = <<"a", Newline, DoubleQuote>>
    /\ state = "IN_FIELD"
    /\ doublequotes_in_field = 1

\* history: what the hooks observe in a transition from from_state to
\* to_state made in the order the claim states
HooksInOrder(from_state, to_state) ==
    << [hook |-> "before_transition", from |-> from_state, to |-> to_state,
        state |-> from_state],
       [hook |-> "after_transition", from |-> from_state, to |-> to_state,
        state |-> to_state] >>

\* C12: transition(to) with to outside the machine's enumeration raises,
\* leaves the state unchanged and calls no hook; otherwise
\* before_transition(from, to) is called while the state is from, the state
\* becomes to, and after_transition(from, to) is called while the state is
\* to; reset() makes such a transition to initial_state.
C12_ValidatedTransition ==
    [][ /\ call'.name = "transition"
              => IF call'.arg \notin GumballStates
                 THEN /\ machine'.error.kind = "TypeError"
                      /\ machine'.state = machine.state
                      /\ machine'.log = <<>>
                 ELSE /\ machine'.error = NoError
                      /\ machine'.state = call'.arg
                      /\ machine'.log = HooksInOrder(machine.state, call'.arg)
        /\ call'.name = "reset"
              => /\ machine'.error = NoError
                 /\ machine'.state = gumball_initial_state
                 /\ machine'.log =
                        HooksInOrder(machine.state, gumball_initial_state)
      ]_vars

C12_Witness ==
    /\ call = [name |-> "transition", arg |-> "HAS_COIN"]
    /\ machine.state = "HAS_COIN"
    /\ machine.log = HooksInOrder("SOLD_OUT", "HAS_COIN")

\* C18: on a builder constructed without an initial value, after any
\* appends, clears and reads, str(builder) is the concatenation of the texts
\* appended since the last clear(), len(builder) is its length, clear()
\* makes the length 0, and every read returned these values.
C18_BuilderMatchesReference ==
    /\ StringBuilder_str(sb) = text
    /\ StringBuilder_len(sb) = Len(text)
    /\ read.op \in {"str", "build"} => read.value = text
    /\ read.op = "len" => read.value = Len(text)
    /\ read.op = "clear" => StringBuilder_len(sb) = 0

\* a shorter text has been appended after a longer one was cleared
C18_Witness ==
    /\ read.op = "append"
    /\ Len(text) = 1
    /\ Len(sb.buf) > Len(text)

C21_StateQuoteCoupling ==
    /\ state \in {"BEGIN", "END_OF_FIELD", "END_OF_RECORD", "END"}
          => doublequotes_in_field = 0
    /\ state = "IN_FIELD"
          => doublequotes_in_field = 0 \/ doublequotes_in_field % 2 = 1
    /\ state = "QUOTE_IN_FIELD"
          => doublequotes_in_field >= 2 /\ doublequotes_in_field % 2 = 0

C21_Witness ==
    /\ pc = "parsing"
    /\ state = "QUOTE_IN_FIELD"
    /\ doublequotes_in_field = 4

\* the step runs end_field: a comma or a newline read with an even counter,
\* or the end of the input outside END_OF_RECORD
EndFieldRuns ==
    \/ /\ Reads(Comma) \/ Reads(Newline)
       /\ doublequotes_in_field % 2 = 0
    \/ ReadsEnd /\ state # "END_OF_RECORD"

\* C22: in a parse started on a new or reset parser, whenever end_field
\* runs with a nonzero even quote counter the state is QUOTE_IN_FIELD, so
\* the 'must end with a double-quote' exception is never raised.
C22_MustEndUnreachable ==
    [][ /\ (EndFieldRuns /\ doublequotes_in_field > 0
               /\ doublequotes_in_field % 2 = 0)
              => state = "QUOTE_IN_FIELD"
        /\ error'.kind # "MustEndWithDoubleQuote"
      ]_vars

C22_Witness ==
    /\ pc = "parsing"
    /\ consumed = <<DoubleQuote, "a", DoubleQuote, Comma>>
    /\ state = "END_OF_FIELD"
    /\ Len(fields) = 1
    /\ doublequotes_in_field = 0

\* the step runs end_record with an even quote counter: a newline read
\* outside quotes, or the end of the input outside END_OF_RECORD
EndRecordRuns ==
    /\ Reads(Newline) \/ (ReadsEnd /\ state # "END_OF_RECORD")
    /\ doublequotes_in_field % 2 = 0

\* C23: parsing an input of no characters on a fresh parser returns in END
\* with fields = [''], fields_per_record = 1 and len(parser) = 1; every
\* record termination appends exactly one more field, so no completed
\* record has zero fields.
C23_EmptyInput ==
    [][ /\ (ReadsEnd /\ consumed = <<>> /\ fields = <<>>)
              => /\ pc' = "returned"
                 /\ state' = "END"
                 /\ fields' = << <<>> >>
                 /\ fields_per_record' = 1
                 /\ len_parser(Parser') = 1
                 /\ records' = << << <<>> >> >>
        /\ EndRecordRuns => Len(fields') = Len(fields) + 1
        /\ \A i \in DOMAIN records' : Len(records'[i]) >= 1
      ]_vars

C23_Witness ==
    /\ pc = "returned"
    /\ consumed = <<>>
    /\ state = "END"
    /\ fields = << <<>> >>
    /\ fields_per_record = 1

\* C24: after any calls of add_gumballs (a non-positive argument raises
\* ValueError and changes nothing), insert_coin, eject_coin, turn_crank and
\* reset on a machine constructed with any inventory, gumballs >= 0 and the
\* state is SOLD_OUT exactly when gumballs = 0; so HAS_COIN comes with
\* gumballs >= 1.
C24_InventoryInvariant ==
    /\ [](/\ machine.gumballs >= 0
          /\ machine.state = "SOLD_OUT" <=> machine.gumballs = 0
          /\ machine.state = "HAS_COIN" => machine.gumballs >= 1
          /\ machine.state \in GumballStates)
    /\ [][ /\ (call'.name = "add_gumballs" /\ call'.arg < 1)
                 => /\ machine'.error.kind = "ValueError"
                    /\ machine'.state = machine.state
                    /\ machine'.gumballs = machine.gumballs
           /\ (call'.name = "turn_crank")
                 => machine'.gumballs >= 0
         ]_vars

C24_Witness ==
    /\ call = [name |-> "add_gumballs", arg |-> -1]
    /\ machine.error.kind = "ValueError"
    /\ machine.state = "HAS_COIN"
    /\ machine.gumballs = 1

====
